---- MODULE Spec2Model ----
(***************************************************************************)
(* Model of src/main.py: process_query, get_products_by_filter,            *)
(* chunk_products, summarize_single_chunk and summarize_in_chunks.         *)
(*                                                                         *)
(* Strings are sequences of tokens (a token is a word or a run of          *)
(* characters that the code never looks inside).  The empty string is the  *)
(* empty sequence, concatenation is \o.                                    *)
(***************************************************************************)
EXTENDS Integers, Sequences, FiniteSets, TLC

\* ---------------------------------------------------------------- bounds
MaxLen == 4          \* longest result list that is explored
MaxChunkSize == 3    \* largest explicit chunk_size argument
MaxBatchSize == 3    \* largest explicit batch_size argument

\* ------------------------------------------------------ program constants
DEFAULT_CHUNK_SIZE == 25
DEFAULT_BATCH_SIZE == 1

\* ------------------------------------------------------------ vocabulary
Products == {"p1", "p2"}           \* opaque product records
WS == " "                          \* a run of whitespace
SEP == "\n\n"                      \* the blank line used by the join
FILTER_EQ == "filter="
NOT_FOUND == "NOT_FOUND"
NO_VALID == "No valid product ID or filter query found in the input."
ERR_FETCH == "Error fetching filtered product data: "
ERR_QUERY == "Error during query processing: "
ERR_CHUNK == "Error in chunk "

\* decimal rendering of the ordinals that can occur
Ordinal == <<"1", "2", "3", "4", "5", "6", "7", "8">>

Min(a, b) == IF a < b THEN a ELSE b

\* all sequences over S of length 0..n
SeqUpTo(S, n) == UNION {[1..k -> S] : k \in 0..n}

\* ------------------------------------------------------- pure functions
\* str.strip(): drop leading and trailing whitespace
RECURSIVE LStrip(_)
LStrip(s) == IF s # <<>> /\ Head(s) = WS THEN LStrip(Tail(s)) ELSE s

RECURSIVE RStrip(_)
RStrip(s) == IF s # <<>> /\ s[Len(s)] = WS
             THEN RStrip(SubSeq(s, 1, Len(s) - 1)) ELSE s

Strip(s) == RStrip(LStrip(s))

\* sub in s  (substring test, sub a single token)
Contains(s, tok) == \E k \in 1..Len(s) : s[k] = tok

\* s.startswith(tok)
StartsWith(s, tok) == s # <<>> /\ s[1] = tok

\* data[a:b] with 0-based, end-exclusive Python indices, 0 <= a
Slice(s, a, b) == SubSeq(s, a + 1, Min(b, Len(s)))

\* range(0, n, step) as the ordered list of its values
RangeStep(n, step) == [k \in 1..((n + step - 1) \div step) |-> (k - 1) * step]

\* variant: every slice is one record too long (chunks overlap)
chunk_products_overlap(data, chunk_size) ==
    LET starts == RangeStep(Len(data), chunk_size)
    IN  [k \in 1..Len(starts) |->
           Slice(data, starts[k], starts[k] + chunk_size + 1)]

\* variant: an empty list still gives one (empty) chunk
chunk_products_never_empty(data, chunk_size) ==
    IF data = <<>> THEN << <<>> >>
    ELSE [k \in 1..Len(RangeStep(Len(data), chunk_size)) |->
            Slice(data, RangeStep(Len(data), chunk_size)[k],
                  RangeStep(Len(data), chunk_size)[k] + chunk_size)]

\* list(chunk_products(data, chunk_size))
chunk_products(data, chunk_size) ==
    LET starts == RangeStep(Len(data), chunk_size)
    IN  [k \in 1..Len(starts) |-> Slice(data, starts[k], starts[k] + chunk_size)]

\* "\n\n".join(summaries)
RECURSIVE Join(_)
Join(ss) == IF ss = <<>> THEN <<>>
            ELSE IF Len(ss) = 1 THEN ss[1]
            ELSE ss[1] \o <<SEP>> \o Join(Tail(ss))

\* concatenation of a list of strings
RECURSIVE Flatten(_)
Flatten(ss) == IF ss = <<>> THEN <<>> ELSE Head(ss) \o Flatten(Tail(ss))


\* ------------------------------------------------- external collaborators
\* What the language-understanding agent can stream back: the texts of the
\* successive results of queryBuilder_agent.invoke, and whether the stream
\* ends by raising.
MaxYields == 2
PAYLOAD == "%3D%27Class%27%3A%27PJ%27"
PROSE == "Here is the query:"
BARE_ID == "00902F158508006"
QBTexts == { <<FILTER_EQ, PAYLOAD>>,
             <<WS, FILTER_EQ, PAYLOAD, WS>>,
             <<NOT_FOUND>>,
             <<WS, NOT_FOUND>>,
             <<PROSE, WS, FILTER_EQ, PAYLOAD>>,
             <<PROSE>>,
             <<BARE_ID>>,
             <<>> }
QBOutcomes == [yields : SeqUpTo(QBTexts, MaxYields), raises : BOOLEAN]

\* What the catalog can answer to one GET.
Statuses == {200, 201, 301, 404, 500}
Bodies == {[kind |-> "invalid", key |-> "", records |-> <<>>],
           [kind |-> "null", key |-> "", records |-> <<>>]}
          \cup [kind : {"object"}, key : {"data", "products"},
                records : SeqUpTo(Products, MaxLen)]
CatalogOutcomes == {[transport |-> "error", status |-> 0,
                     body |-> [kind |-> "invalid", key |-> "", records |-> <<>>]]}
                   \cup [transport : {"ok"}, status : Statuses, body : Bodies]

\* What the summary agent can stream back for one chunk: the contents of
\* the successive results, and whether the stream ends by raising.
SummarizeOutcomes ==
    { [parts |-> << <<"sumA">> >>, raises |-> FALSE],
      [parts |-> << <<WS, "sumB">>, <<WS>> >>, raises |-> FALSE],
      [parts |-> << >>, raises |-> FALSE],
      [parts |-> << >>, raises |-> TRUE],
      [parts |-> << <<"sumA">> >>, raises |-> TRUE] }

NoOutcome == [parts |-> << <<"<none>">> >>, raises |-> FALSE]
NoResult == <<"<pending>">>

\* ------------------------------------------------------------ the state
VARIABLES
    pq,          \* position of process_query
    qbOut,       \* product_id_or_filter_result
    fetchCalls,  \* filter_query of every GET issued to the catalog
    reply,       \* value returned by process_query
    sic,         \* position of summarize_in_chunks
    chunks,      \* chunks
    batch_size,  \* batch_size
    i,           \* loop variable i of summarize_in_chunks
    summaries,   \* summaries
    task,        \* state of the summarize_single_chunk task of each chunk
    result,      \* value returned by the task of each chunk
    outcome,     \* what the summary agent answered for each chunk
    invoked,     \* number of summary_agent.invoke calls made for each chunk
    delays,      \* number of asyncio.sleep calls made
    ret,         \* value returned by summarize_in_chunks
    data,        \* product_data["data"]
    chunk_size,  \* chunk_size
    catalogResp, \* the catalog's answer to the GET, once received
    overtaken,   \* some task finished before an earlier task of its batch
    session_memory, \* the process-wide list session_memory
    hung,        \* the chunk whose agent call never ends (0: none)
    enc          \* state of one run of the filter encoder

vars == <<pq, qbOut, fetchCalls, reply, sic, chunks, batch_size, i,
          summaries, task, result, outcome, invoked, delays, ret,
          data, chunk_size, catalogResp, overtaken, session_memory, hung,
          enc>>

\* the state that the request pipeline never writes
auxVars == <<session_memory, hung, enc>>

EncIdle == [phase |-> "idle", row |-> 0, pos |-> 0, out |-> <<>>]

NoBody == [kind |-> "invalid", key |-> "", records |-> <<>>]
NoResponse == [transport |-> "none", status |-> 0, body |-> NoBody]

pqVars == <<pq, qbOut, fetchCalls, reply, catalogResp>>

Init ==
    /\ pq = "idle"
    /\ qbOut = <<>>
    /\ fetchCalls = <<>>
    /\ reply = <<>>
    /\ sic = "idle"
    /\ chunks = <<>>
    /\ batch_size = DEFAULT_BATCH_SIZE
    /\ i = 0
    /\ summaries = <<>>
    /\ task = <<>>
    /\ result = <<>>
    /\ outcome = <<>>
    /\ invoked = <<>>
    /\ delays = 0
    /\ ret = <<>>
    /\ data = <<>>
    /\ chunk_size = DEFAULT_CHUNK_SIZE
    /\ catalogResp = NoResponse
    /\ overtaken = FALSE
    /\ session_memory = <<>>
    /\ hung = 0
    /\ enc = EncIdle


\* ------------------------------------------------ summarize_single_chunk
\* variant: the placeholder numbers the chunk within its batch
summarize_single_chunk_local(o, idx) ==
    IF o.raises THEN <<ERR_CHUNK, Ordinal[(idx % batch_size) + 1]>>
    ELSE Strip(Flatten(o.parts))

\* The value summarize_single_chunk(chunk, summary_agent, idx) returns when
\* the agent answers with outcome o.
summarize_single_chunk(o, idx) ==
    IF o.raises THEN <<ERR_CHUNK, Ordinal[idx + 1]>>
    ELSE Strip(Flatten(o.parts))

\* variant: a failed call is made again
TaskAfterCall_retry(o) == IF o.raises THEN "created" ELSE "done"

\* The state a task is in once its agent call has ended (no retry).
TaskAfterCall(o) == "done"

\* --------------------------------------------------- summarize_in_chunks
\* 1-based positions of the chunks of the batch that starts at index i0
BatchOf(i0, bs, n) == {k \in 1..n : i0 < k /\ k <= i0 + bs}

\* variant: the caller resumes as soon as one task has finished
GatherReady_first(i0, bs, n, t) == \E k \in BatchOf(i0, bs, n) : t[k] = "done"

\* asyncio.gather(*tasks) resumes its caller when every task has finished
GatherReady(i0, bs, n, t) == \A k \in BatchOf(i0, bs, n) : t[k] = "done"

\* variant: the results come back last task first
GatherResults_reversed(i0, bs, n, res) ==
    [j \in 1..Cardinality(BatchOf(i0, bs, n)) |->
       res[i0 + Cardinality(BatchOf(i0, bs, n)) + 1 - j]]

\* the list asyncio.gather returns: the results in the order of the tasks
GatherResults(i0, bs, n, res) ==
    [j \in 1..Cardinality(BatchOf(i0, bs, n)) |-> res[i0 + j]]

\* variant: the sleep also follows a final batch that is full
MoreBatches_inclusive(i0, bs, n) == i0 + bs <= n

\* the condition guarding the inter-batch sleep
MoreBatches(i0, bs, n) == i0 + bs < n

\* One evaluation of the head of the for loop with loop value i0: either the
\* tasks of the next batch are created and gathered, or the loop is over and
\* the joined summaries are returned (to process_query, which returns them).
LoopHead(i0, chs, bs, sums, t, p) ==
    /\ i' = i0
    /\ IF i0 < Len(chs)
       THEN /\ sic' = "gather"
            /\ task' = [k \in 1..Len(chs) |->
                          IF k \in BatchOf(i0, bs, Len(chs)) THEN "created"
                          ELSE t[k]]
            /\ ret' = ret
            /\ reply' = reply
            /\ pq' = p
       ELSE /\ sic' = "returned"
            /\ task' = t
            /\ ret' = Join(sums)
            /\ IF p = "await_summary"
               THEN reply' = Join(sums) /\ pq' = "returned"
               ELSE reply' = reply /\ pq' = p

\* The synchronous prefix of summarize_in_chunks, called with
\* product_data = {"data": data} by a caller that is at position p.
EnterSummarizeInChunks(d, cs, bs, p) ==
    LET chs == chunk_products(d, cs)
        n == Len(chs)
    IN  /\ data' = d
        /\ chunk_size' = cs
        /\ overtaken' = FALSE
        /\ chunks' = chs
        /\ batch_size' = bs
        /\ summaries' = <<>>
        /\ result' = [k \in 1..n |-> NoResult]
        /\ outcome' = [k \in 1..n |-> NoOutcome]
        /\ invoked' = [k \in 1..n |-> 0]
        /\ delays' = 0
        /\ LoopHead(0, chs, bs, <<>>, [k \in 1..n |-> "none"], p)

\* summarize_in_chunks called on its own, with explicit arguments.
CallSummarizeInChunks ==
    /\ pq = "idle" /\ sic = "idle"
    /\ \E d \in SeqUpTo(Products, MaxLen),
          cs \in 1..MaxChunkSize, bs \in 1..MaxBatchSize :
          EnterSummarizeInChunks(d, cs, bs, pq)
    /\ UNCHANGED <<qbOut, fetchCalls, catalogResp>>
    /\ UNCHANGED auxVars

\* A task created by gather runs up to its call of summary_agent.invoke.
\* The event loop runs the first step of the tasks in creation order.
TaskStart ==
    /\ sic = "gather"
    /\ \E k \in 1..Len(chunks) :
          /\ task[k] = "created"
          /\ \A m \in 1..(k - 1) : task[m] # "created"
          /\ task' = [task EXCEPT ![k] = "running"]
          /\ invoked' = [invoked EXCEPT ![k] = @ + 1]
    /\ UNCHANGED <<pqVars, sic, chunks, batch_size, i, summaries, result,
                   outcome, delays, ret, data, chunk_size, overtaken>>
    /\ UNCHANGED auxVars

\* The agent call of a running task ends, in any order among the tasks.
TaskComplete ==
    /\ \E k \in 1..Len(chunks), o \in SummarizeOutcomes :
          /\ task[k] = "running"
          /\ k # hung
          /\ task' = [task EXCEPT ![k] = TaskAfterCall(o)]
          /\ outcome' = [outcome EXCEPT ![k] = o]
          /\ result' = [result EXCEPT ![k] = summarize_single_chunk(o, k - 1)]
          /\ overtaken' = (overtaken \/ \E m \in 1..(k - 1) :
                                           task[m] \in {"created", "running"})
    /\ UNCHANGED <<pqVars, sic, chunks, batch_size, i, summaries, invoked,
                   delays, ret, data, chunk_size>>
    /\ UNCHANGED auxVars

\* gather returns: the results are appended, then either the sleep is
\* awaited or the loop goes on.
GatherDone ==
    /\ sic = "gather"
    /\ GatherReady(i, batch_size, Len(chunks), task)
    /\ LET sums == summaries \o GatherResults(i, batch_size, Len(chunks), result)
       IN  /\ summaries' = sums
           /\ IF MoreBatches(i, batch_size, Len(chunks))
              THEN /\ sic' = "sleep"
                   /\ delays' = delays + 1
                   /\ UNCHANGED <<pq, reply, i, task, ret>>
              ELSE /\ delays' = delays
                   /\ LoopHead(i + batch_size, chunks, batch_size, sums, task, pq)
    /\ UNCHANGED <<qbOut, fetchCalls, catalogResp, chunks, batch_size, result,
                   outcome, invoked, data, chunk_size, overtaken>>
    /\ UNCHANGED auxVars

\* asyncio.sleep(delay_between_batches) is over: next loop iteration.
Wake ==
    /\ sic = "sleep"
    /\ LoopHead(i + batch_size, chunks, batch_size, summaries, task, pq)
    /\ UNCHANGED <<qbOut, fetchCalls, catalogResp, chunks, batch_size,
                   summaries, result, outcome, invoked, delays, data,
                   chunk_size, overtaken>>
    /\ UNCHANGED auxVars


\* ------------------------------------------------ get_products_by_filter
\* The outcome of get_products_by_filter when the catalog answers resp:
\* the exception it re-raises, or the decoded body it returns.
Raise(e) == [raised |-> TRUE, error |-> e, value |-> NoBody]
Return(v) == [raised |-> FALSE, error |-> "", value |-> v]

\* variant: only client and server errors raise
IsSuccess_below400(status) == status < 400

\* httpx raise_for_status(): every status outside 2xx raises
IsSuccess(status) == 200 <= status /\ status <= 299

get_products_by_filter(resp) ==
    IF resp.transport = "error" THEN Raise("ConnectError")
    ELSE IF ~IsSuccess(resp.status) THEN Raise("HTTPStatusError")
    ELSE IF resp.body.kind = "invalid" THEN Raise("JSONDecodeError")
    ELSE IF resp.body.kind = "null" THEN Raise("TypeError")
    ELSE Return(resp.body)

\* ---------------------------------------------------------- process_query
\* variant: any non-empty output is used as a filter
FilterDetected_nonempty(s) == s # <<>>

\* the test that decides whether the agent's output is used as a filter
FilterDetected(s) == Contains(s, FILTER_EQ)

\* variant: the record array is also taken from the key "products"
HasDataKey_either(body) == body.key \in {"data", "products"}

\* product_data["data"] succeeds: the decoded body has the key "data"
HasDataKey(body) == body.key = "data"

\* variant: a handled request records the agent's output
MemoryAfterRequest_append(mem, out) == Append(mem, Flatten(<<out>>))

\* session_memory once chat has handled a request whose agent output was
\* out: no statement of chat or process_query writes the list
MemoryAfterRequest(mem, out) == mem

\* variant: the outer handler misses the error of an unbound local
OuterExcept_narrow(e) == e # "UnboundLocalError"

\* "except Exception" of the outer try: catches every error e of the body
OuterExcept(e) == e \in {"AgentError", "UnboundLocalError", "ConnectError",
                         "HTTPStatusError", "JSONDecodeError", "TypeError",
                         "KeyError"}

\* "except Exception" of the try around the fetch and the summary
InnerExcept(e) == e \in {"ConnectError", "HTTPStatusError", "JSONDecodeError",
                         "TypeError", "KeyError"}

\* Where process_query ends and what it returns when error e is raised,
\* inside the inner try (inner = TRUE) or only inside the outer one.
Handle(e, inner) ==
    IF inner /\ InnerExcept(e)
    THEN [pq |-> "returned", reply |-> <<ERR_FETCH, e>>]
    ELSE IF OuterExcept(e)
    THEN [pq |-> "returned", reply |-> <<ERR_QUERY, e>>]
    ELSE [pq |-> "raised", reply |-> <<>>]

\* process_query is called and awaits the query builder agent.
ProcessQuery ==
    /\ pq = "idle" /\ sic = "idle"
    /\ pq' = "await_qb"
    /\ UNCHANGED <<qbOut, fetchCalls, reply, catalogResp, sic, chunks,
                   batch_size, i, summaries, task, result, outcome, invoked,
                   delays, ret, data, chunk_size, overtaken>>
    /\ UNCHANGED auxVars

\* The agent's stream ends; the last result is stripped and classified.
QueryBuilderResponds ==
    /\ pq = "await_qb"
    /\ \E o \in QBOutcomes :
          IF o.raises
          THEN /\ reply' = Handle("AgentError", FALSE).reply
               /\ pq' = Handle("AgentError", FALSE).pq
               /\ UNCHANGED <<qbOut, fetchCalls>>
          ELSE IF o.yields = <<>>
          THEN /\ reply' = Handle("UnboundLocalError", FALSE).reply
               /\ pq' = Handle("UnboundLocalError", FALSE).pq
               /\ UNCHANGED <<qbOut, fetchCalls>>
          ELSE LET out == Strip(o.yields[Len(o.yields)])
               IN  /\ qbOut' = out
                   /\ IF FilterDetected(out)
                      THEN /\ fetchCalls' = Append(fetchCalls, out)
                           /\ pq' = "await_fetch"
                           /\ reply' = reply
                      ELSE /\ fetchCalls' = fetchCalls
                           /\ pq' = "returned"
                           /\ reply' = <<NO_VALID>>
    /\ session_memory' = MemoryAfterRequest(session_memory, qbOut')
    /\ UNCHANGED <<catalogResp, sic, chunks, batch_size, i, summaries, task,
                   result, outcome, invoked, delays, ret, data, chunk_size,
                   overtaken, hung, enc>>

\* The catalog answers the GET; on success summarize_in_chunks is entered
\* with its default chunk_size and batch_size.
CatalogResponds ==
    /\ pq = "await_fetch"
    /\ \E resp \in CatalogOutcomes :
          LET r == get_products_by_filter(resp)
          IN  /\ catalogResp' = resp
              /\ IF r.raised
                 THEN /\ reply' = Handle(r.error, TRUE).reply
                      /\ pq' = Handle(r.error, TRUE).pq
                      /\ UNCHANGED <<sic, chunks, batch_size, i, summaries,
                                     task, result, outcome, invoked, delays,
                                     ret, data, chunk_size, overtaken>>
                 ELSE IF ~HasDataKey(r.value)
                 THEN /\ reply' = Handle("KeyError", TRUE).reply
                      /\ pq' = Handle("KeyError", TRUE).pq
                      /\ sic' = "raised"
                      /\ UNCHANGED <<chunks, batch_size, i, summaries, task,
                                     result, outcome, invoked, delays, ret,
                                     data, chunk_size, overtaken>>
                 ELSE EnterSummarizeInChunks(r.value.records,
                                             DEFAULT_CHUNK_SIZE,
                                             DEFAULT_BATCH_SIZE,
                                             "await_summary")
    /\ UNCHANGED <<qbOut, fetchCalls>>
    /\ UNCHANGED auxVars

\* ------------------------------------------------------------------ spec
Next ==
    \/ ProcessQuery
    \/ QueryBuilderResponds
    \/ CatalogResponds
    \/ CallSummarizeInChunks
    \/ TaskStart
    \/ TaskComplete
    \/ GatherDone
    \/ Wake

Spec == Init /\ [][Next]_vars

TypeOK ==
    /\ pq \in {"idle", "await_qb", "await_fetch", "await_summary", "returned",
              "raised"}
    /\ session_memory \in Seq(STRING)
    /\ hung \in Nat
    /\ sic \in {"idle", "gather", "sleep", "returned", "raised"}
    /\ i \in Nat /\ delays \in Nat /\ batch_size \in Nat \ {0}
    /\ Len(summaries) <= Len(chunks)
    /\ \A k \in 1..Len(chunks) :
          /\ task[k] \in {"none", "created", "running", "done"}
          /\ invoked[k] \in Nat


\* ========================================================= filter strings
\* The filter strings documented in QUERY_BUILDER_SYSTEM_PROMPT, cut into
\* tokens: a token is one character, one %XX escape, the literal "filter="
\* or a maximal run of letters, digits, "_", "." and "-".

\* The SUPPORTED OPERATORS table: the raw format and the URL-encoded output
\* of each row, in the order of the table.
SUPPORTED_OPERATORS == <<
    \* Equals
    [raw |->
        <<"'", "Class", "'", ":", "'", "PJ", "'">>,
     encoded |->
        <<"filter=", "%3D", "%27", "Class", "%27", "%3A", "%27", "PJ",
          "%27">>],
    \* Not Equals
    [raw |->
        <<"'", "Item", " ", "Weight", "'", ":", "^", "'", "103.68", "'">>,
     encoded |->
        <<"filter=", "%3D", "%27", "Item", "%20", "Weight", "%27", "%3A",
          "%5E", "%27", "103.68", "%27">>],
    \* Has any value
    [raw |->
        <<"'", "Item", " ", "Weight", "'", ":", "*">>,
     encoded |->
        <<"filter=", "%3D", "%27", "Item", "%20", "Weight", "%27", "%3A",
          "*">>],
    \* Has no value
    [raw |->
        <<"'", "Item", " ", "Weight", "'", ":", "^", "*">>,
     encoded |->
        <<"filter=", "%3D", "%27", "Item", "%20", "Weight", "%27", "%3A",
          "%5E", "*">>],
    \* Contains
    [raw |->
        <<"'", "Item", " ", "Description", "'", ":", "contains", "(", "'",
          "tile", "'", ")">>,
     encoded |->
        <<"filter=", "%3D", "%27", "Item", "%20", "Description", "%27",
          "%3A", "contains", "(", "%27", "tile", "%27", ")">>],
    \* Does not contain
    [raw |->
        <<"'", "Item", " ", "Description", "'", ":", "^", "contains", "(",
          "'", "tile", "'", ")">>,
     encoded |->
        <<"filter=", "%3D", "%27", "Item", "%20", "Description", "%27",
          "%3A", "%5E", "contains", "(", "%27", "tile", "%27", ")">>],
    \* Starts with
    [raw |->
        <<"'", "Item", " ", "Code", "'", ":", "starts_with", "(", "'",
          "00", "'", ")">>,
     encoded |->
        <<"filter=", "%3D", "%27", "Item", "%20", "Code", "%27", "%3A",
          "starts_with", "(", "%27", "00", "%27", ")">>],
    \* Does not start with
    [raw |->
        <<"'", "Item", " ", "Description", "'", ":", "^", "starts_with",
          "(", "'", "Stone", "'", ")">>,
     encoded |->
        <<"filter=", "%3D", "%27", "Item", "%20", "Description", "%27",
          "%3A", "%5E", "starts_with", "(", "%27", "Stone", "%27", ")">>],
    \* Word starts with
    [raw |->
        <<"'", "Item", " ", "Description", "'", ":", "~", "'", "light",
          "'">>,
     encoded |->
        <<"filter=", "%3D", "%27", "Item", "%20", "Description", "%27",
          "%3A", "~", "%27", "light", "%27">>],
    \* Word does not start with
    [raw |->
        <<"'", "Item", " ", "Description", "'", ":", "^", "~", "'", "grey",
          "'">>,
     encoded |->
        <<"filter=", "%3D", "%27", "Item", "%20", "Description", "%27",
          "%3A", "%5E", "~", "%27", "grey", "%27">>],
    \* Is valid
    [raw |->
        <<"'", "Item", " ", "Weight", "'", ":", "valid", "(", ")">>,
     encoded |->
        <<"filter=", "%3D", "%27", "Item", "%20", "Weight", "%27", "%3A",
          "valid", "(", ")">>],
    \* Is invalid
    [raw |->
        <<"'", "Item", " ", "Volume", "'", ":", "^", "valid", "(", ")">>,
     encoded |->
        <<"filter=", "%3D", "%27", "Item", "%20", "Volume", "%27", "%3A",
          "%5E", "valid", "(", ")">>] >>

\* The MULTI-FIELD FILTER EXAMPLES table: raw filter and URL-encoded.
MULTI_FIELD_EXAMPLES == <<
    [raw |->
        <<"'", "Country", " ", "of", " ", "Origin", "'", ":", "'", "CA",
          "'", ",", "'", "Class", "'", ":", "'", "PJ", "'">>,
     encoded |->
        <<"filter=", "%3D", "%27", "Country", "%20", "of", "%20", "Origin",
          "%27", "%3A", "%27", "CA", "%27", "%2C", "%27", "Class", "%27",
          "%3A", "%27", "PJ", "%27">>] >>

\* COMPLEX FILTER EXAMPLES, Example 2: the raw clause and its encoding.
LOCALIZED_EXAMPLE == <<
    [raw |->
        <<"localized_property", "(", "'", "Range", " ", "Description", "'",
          ",", " ", "en-GB", ")", ":", "contains", "(", "'", "DecoMetalEU",
          "'", ")">>,
     encoded |->
        <<"filter=", "%3D", "localized_property", "(", "%27", "Range",
          "%20", "Description", "%27", "%2C", "en-GB", ")", "%3A",
          "contains", "(", "%27", "DecoMetalEU", "%27", ")">>] >>

\* COMPLEX FILTER EXAMPLES, Example 1: the field name and the encoding.
ITEM_SKU_FIELD ==
    <<"Item", "/", "SKU", " ", "(", "Product", " ", "ID", ")">>

ITEM_SKU_ENCODED ==
    <<"filter=", "%3D", "%27", "Item", "%2F", "SKU", "%20", "(", "Product",
      "%20", "ID", ")", "%27", "%3A", "contains", "(", "%27",
      "00902F158508006", "%27", ")">>

\* the raw format of the Contains row, for any field and value
RawContains(field, value) ==
    <<"'">> \o field \o <<"'", ":", "contains", "(", "'", value, "'", ")">>

ITEM_SKU_EXAMPLE ==
    << [raw |-> RawContains(ITEM_SKU_FIELD, BARE_ID),
        encoded |-> ITEM_SKU_ENCODED] >>

\* variant: the colon of the Equals row is left unencoded
DocPairs_plain_colon ==
    [SUPPORTED_OPERATORS EXCEPT ![1].encoded[6] = ":"]
        \o MULTI_FIELD_EXAMPLES \o LOCALIZED_EXAMPLE \o ITEM_SKU_EXAMPLE

\* variant: the comma of the multi-field example is left unencoded
DocPairs_plain_comma ==
    SUPPORTED_OPERATORS
        \o [MULTI_FIELD_EXAMPLES EXCEPT ![1].encoded[14] = ","]
        \o LOCALIZED_EXAMPLE \o ITEM_SKU_EXAMPLE

\* variant: the Contains row encodes the space of its field name as "+"
DocPairs_plus_space ==
    [SUPPORTED_OPERATORS EXCEPT ![5].encoded[5] = "+"]
        \o MULTI_FIELD_EXAMPLES \o LOCALIZED_EXAMPLE \o ITEM_SKU_EXAMPLE

\* every documented pair: rows 1..12 the operator table, 13 the multi-field
\* example, 14 the localized_property example, 15 the Item/SKU example
DocPairs ==
    SUPPORTED_OPERATORS \o MULTI_FIELD_EXAMPLES \o LOCALIZED_EXAMPLE
        \o ITEM_SKU_EXAMPLE

TableRows == 1..Len(SUPPORTED_OPERATORS)
MultiFieldRow == Len(SUPPORTED_OPERATORS) + 1
LocalizedRow == Len(SUPPORTED_OPERATORS) + 2
ItemSkuRow == Len(SUPPORTED_OPERATORS) + 3

\* Filter Compiler, step 4: the percent-encoding of one character
EncodeChar(c) ==
    CASE c = "'" -> "%27"
      [] c = ":" -> "%3A"
      [] c = " " -> "%20"
      [] c = "," -> "%2C"
      [] c = "^" -> "%5E"
      [] c = "(" -> "%28"
      [] c = ")" -> "%29"
      [] c = "/" -> "%2F"
      [] c = "=" -> "%3D"
      [] OTHER -> c

\* percent-decoding of one token
DecodeToken(t) ==
    CASE t = "%27" -> "'"
      [] t = "%3A" -> ":"
      [] t = "%20" -> " "
      [] t = "%2C" -> ","
      [] t = "%5E" -> "^"
      [] t = "%28" -> "("
      [] t = "%29" -> ")"
      [] t = "%2F" -> "/"
      [] t = "%3D" -> "="
      [] OTHER -> t

\* strip "filter=" and the leading "=" from a decoded filter string
StripFilterPrefix(s) ==
    IF Len(s) >= 2 /\ s[1] = FILTER_EQ /\ s[2] = "=" THEN SubSeq(s, 3, Len(s))
    ELSE s

\* everything but the encoder state
pipelineVars == <<pq, qbOut, fetchCalls, reply, sic, chunks, batch_size, i,
                  summaries, task, result, outcome, invoked, delays, ret,
                  data, chunk_size, catalogResp, overtaken, session_memory,
                  hung>>

\* The compiler starts on the raw string of a documented pair: it emits
\* "filter=" and the encoded "=" marker.
EncStart ==
    /\ enc.phase = "idle"
    /\ \E r \in 1..Len(DocPairs) :
          enc' = [phase |-> "encoding", row |-> r, pos |-> 0,
                  out |-> <<FILTER_EQ, EncodeChar("=")>>]
    /\ UNCHANGED pipelineVars

\* The compiler encodes the next character of the raw string.
EncodeStep ==
    /\ enc.phase = "encoding"
    /\ LET raw == DocPairs[enc.row].raw
           k == enc.pos + 1
       IN  enc' = [enc EXCEPT !.pos = k,
                              !.out = Append(@, EncodeChar(raw[k])),
                              !.phase = IF k = Len(raw) THEN "encoded"
                                        ELSE "encoding"]
    /\ UNCHANGED pipelineVars

\* The documented encoded string of the same pair is taken up for decoding.
DecodeStart ==
    /\ enc.phase = "encoded"
    /\ enc' = [enc EXCEPT !.phase = "decoding", !.pos = 0, !.out = <<>>]
    /\ UNCHANGED pipelineVars

\* The next token of the documented encoded string is decoded.
DecodeStep ==
    /\ enc.phase = "decoding"
    /\ LET e == DocPairs[enc.row].encoded
           k == enc.pos + 1
       IN  enc' = [enc EXCEPT !.pos = k,
                              !.out = Append(@, DecodeToken(e[k])),
                              !.phase = IF k = Len(e) THEN "decoded"
                                        ELSE "decoding"]
    /\ UNCHANGED pipelineVars

EncNext ==
    \/ EncStart
    \/ EncodeStep
    \/ DecodeStart
    \/ DecodeStep

EncSpec == Init /\ [][EncNext]_vars

\* ============================================================== liveness
\* summarize_in_chunks is called on its own on a list of n records, and the
\* summary agent is such that its call for chunk h never ends (h = 0: every
\* call ends).
CallWithHungCall ==
    /\ pq = "idle" /\ sic = "idle" /\ enc.phase = "idle"
    /\ \E n \in 0..MaxLen, cs \in 1..MaxChunkSize, bs \in 1..MaxBatchSize :
          LET d == [k \in 1..n |-> "p1"]
          IN  /\ EnterSummarizeInChunks(d, cs, bs, pq)
              /\ hung' \in 0..Len(chunk_products(d, cs))
    /\ UNCHANGED <<qbOut, fetchCalls, catalogResp, session_memory, enc>>

LiveNext ==
    \/ CallWithHungCall
    \/ TaskStart
    \/ TaskComplete
    \/ GatherDone
    \/ Wake

\* The event loop runs every ready task and every resumed coroutine, the
\* sleep ends, and every agent call but the hung one ends.
LiveSpec ==
    /\ Init /\ [][LiveNext]_vars
    /\ WF_vars(TaskStart)
    /\ WF_vars(TaskComplete)
    /\ WF_vars(GatherDone)
    /\ WF_vars(Wake)

\* ================================================================ claims
NChunks == Len(chunks)

\* the text the code is expected to keep for chunk k, from what the summary
\* agent answered for that chunk
SegmentOf(k) ==
    IF outcome[k].raises THEN <<ERR_CHUNK, Ordinal[k]>>
    ELSE Strip(Flatten(outcome[k].parts))

\* s.split("\n\n")
RECURSIVE SplitOnSep(_, _)
SplitOnSep(s, cur) ==
    IF s = <<>> THEN <<cur>>
    ELSE IF Head(s) = SEP THEN <<cur>> \o SplitOnSep(Tail(s), <<>>)
    ELSE SplitOnSep(Tail(s), Append(cur, Head(s)))

RECURSIVE SumTo(_, _)
SumTo(f, k) == IF k = 0 THEN 0 ELSE f[k] + SumTo(f, k - 1)

\* number of summary_agent.invoke calls made so far
TotalInvocations == SumTo(invoked, Len(invoked))

CeilDiv(a, b) == (a + b - 1) \div b

\* 0-based number of the batch that chunk k (1-based) belongs to
BatchIndex(k) == (k - 1) \div batch_size

\* C1: the string summarize_in_chunks returns has exactly one segment per
\* chunk, segment k is the result of chunk k, in ascending chunk order,
\* separated by blank lines, whatever the completion order of the tasks.
C1_SegmentsInChunkOrder ==
    sic = "returned" =>
        /\ Len(summaries) = NChunks
        /\ ret = Join([k \in 1..NChunks |-> SegmentOf(k)])
        /\ NChunks >= 1 =>
              SplitOnSep(ret, <<>>) = [k \in 1..NChunks |-> SegmentOf(k)]

C1_Witness ==
    /\ sic = "returned" /\ overtaken
    /\ NChunks >= 3
    /\ \E k \in 1..NChunks, m \in 1..NChunks : SegmentOf(k) # SegmentOf(m)

\* C2: when the summary agent fails for some chunks, the run still ends with
\* every chunk processed; the other chunks' segments are unchanged and in
\* place; a failed chunk's position holds the placeholder "Error in chunk N"
\* with N the chunk's global 1-based ordinal.
C2_FailureIsolated ==
    /\ (\E k \in 1..NChunks : outcome[k].raises) => sic # "raised"
    /\ sic = "returned" =>
          \A k \in 1..NChunks :
             /\ task[k] = "done"
             /\ outcome[k].raises => summaries[k] = <<ERR_CHUNK, Ordinal[k]>>
             /\ ~outcome[k].raises =>
                   summaries[k] = Strip(Flatten(outcome[k].parts))

C2_Witness ==
    /\ sic = "returned" /\ batch_size > 1
    /\ \E k \in 1..NChunks : k > batch_size /\ outcome[k].raises
    /\ \E k \in 1..NChunks : ~outcome[k].raises
    /\ \E k \in 1..NChunks : k < NChunks /\ outcome[k].raises

\* C3: no summarize call of a later batch has started while a summarize call
\* of an earlier batch has not completed.
C3_BatchesSequential ==
    \A k \in 1..NChunks, m \in 1..NChunks :
        (BatchIndex(k) < BatchIndex(m) /\ task[m] \in {"running", "done"})
            => task[k] = "done"

C3_Witness ==
    /\ batch_size >= 2
    /\ \E m \in 1..NChunks : BatchIndex(m) >= 1 /\ task[m] = "running"

\* C4 as stated: the delay is invoked exactly ceil(chunkCount/batchSize) - 1
\* times in one run, for every chunk count.
C4_DelayCountAsStated ==
    sic = "returned" => delays = CeilDiv(NChunks, batch_size) - 1

\* C4 amended: the delay is invoked ceil(chunkCount/batchSize) - 1 times when
\* there is at least one chunk and never when there is none; each delay
\* falls between a completed batch and the start of the next one, and none
\* follows the final batch.
C4_DelayCount ==
    /\ sic = "returned" =>
          delays = (IF NChunks = 0 THEN 0
                    ELSE CeilDiv(NChunks, batch_size) - 1)
    /\ sic = "sleep" =>
          /\ i + batch_size < NChunks
          /\ \A k \in 1..NChunks :
                IF k <= i + batch_size THEN task[k] = "done"
                ELSE task[k] = "none"
    /\ sic = "gather" => delays = i \div batch_size

C4_Witness ==
    /\ sic = "returned" /\ delays >= 1
    /\ NChunks % batch_size = 0 /\ batch_size >= 2

\* C5: chunk_products yields contiguous, order-preserving chunks, none empty,
\* each of at most chunk_size records and only the last possibly shorter,
\* whose concatenation is the original list.
C5_ChunksPartition ==
    sic \in {"gather", "sleep", "returned"} =>
        /\ Flatten(chunks) = data
        /\ NChunks = CeilDiv(Len(data), chunk_size)
        /\ \A k \in 1..NChunks :
              /\ Len(chunks[k]) >= 1
              /\ Len(chunks[k]) <= chunk_size
              /\ k < NChunks => Len(chunks[k]) = chunk_size
              /\ \A j \in 1..Len(chunks[k]) :
                    chunks[k][j] = data[(k - 1) * chunk_size + j]

C5_Witness ==
    /\ sic = "returned" /\ NChunks >= 2
    /\ Len(chunks[NChunks]) < chunk_size
    /\ \E a \in 1..Len(data), b \in 1..Len(data) : data[a] # data[b]

\* C6: for an empty result set summarize_in_chunks returns the empty string
\* and never invokes the summary agent.
C6_EmptyResultSet ==
    (sic # "idle" /\ sic # "raised" /\ data = <<>>) =>
        /\ sic = "returned"
        /\ ret = <<>>
        /\ TotalInvocations = 0
        /\ \A k \in 1..NChunks : task[k] = "none"

C6_Witness ==
    sic = "returned" /\ data = <<>> /\ ret = <<>>


\* a reply that reports the failure of the request
IsFailureMessage(r) == r # <<>> /\ r[1] \in {ERR_FETCH, ERR_QUERY}

\* C7: a catalog fetch by filter is only issued with an agent output that
\* begins with the filter= prefix.
C7_FetchOnlyWithFilterPrefix ==
    \A k \in 1..Len(fetchCalls) : StartsWith(fetchCalls[k], FILTER_EQ)

\* C8: when the agent answers the sentinel NOT_FOUND, process_query makes no
\* catalog fetch and no summarize call and replies that no valid product ID
\* or filter query was found.
C8_NotFoundIsTerminal ==
    qbOut = <<NOT_FOUND>> =>
        /\ pq = "returned"
        /\ reply = <<NO_VALID>>
        /\ fetchCalls = <<>>
        /\ catalogResp = NoResponse
        /\ sic = "idle"
        /\ TotalInvocations = 0

C8_Witness ==
    pq = "returned" /\ qbOut = <<NOT_FOUND>> /\ reply = <<NO_VALID>>

\* the catalog's answer has been received
Answered == catalogResp # NoResponse

\* C9 as stated: a transport error, any HTTP status other than 200 or a body
\* that is not well-formed JSON ends the request with a failure message and
\* without any summarize call.
C9_FetchFailureAsStated ==
    (Answered /\ (\/ catalogResp.transport = "error"
                  \/ catalogResp.status # 200
                  \/ catalogResp.body.kind = "invalid")) =>
        /\ pq = "returned"
        /\ IsFailureMessage(reply)
        /\ TotalInvocations = 0

\* C9 amended: a transport error, any HTTP status outside 2xx or a body that
\* is not well-formed JSON ends the request with a failure message and
\* without any summarize call; the failure of a chunk's summarize call never
\* makes the reply a failure message.
C9_FetchFailureTerminal ==
    /\ (Answered /\ (\/ catalogResp.transport = "error"
                     \/ catalogResp.status < 200
                     \/ catalogResp.status > 299
                     \/ catalogResp.body.kind = "invalid")) =>
          /\ pq = "returned"
          /\ reply # <<>> /\ reply[1] = ERR_FETCH
          /\ sic = "idle"
          /\ TotalInvocations = 0
    /\ (pq = "returned" /\ \E k \in 1..NChunks : outcome[k].raises) =>
          /\ ~IsFailureMessage(reply)
          /\ reply = Join([k \in 1..NChunks |-> SegmentOf(k)])

C9_Witness ==
    /\ pq = "returned" /\ Answered /\ catalogResp.transport = "ok"
    /\ catalogResp.status = 301 /\ catalogResp.body.kind = "object"
    /\ catalogResp.body.key = "data" /\ catalogResp.body.records # <<>>
    /\ IsFailureMessage(reply) /\ TotalInvocations = 0

\* C10: nothing is retried: process_query calls the catalog at most once, and
\* a run of summarize_in_chunks invokes the summary agent exactly once per
\* chunk, also for a chunk whose call fails.
C10_NoRetry ==
    /\ Len(fetchCalls) <= 1
    /\ \A k \in 1..NChunks : invoked[k] <= 1
    /\ sic = "returned" => \A k \in 1..NChunks : invoked[k] = 1

C10_Witness ==
    /\ pq = "returned" /\ sic = "returned" /\ Len(fetchCalls) = 1
    /\ \E k \in 1..NChunks : outcome[k].raises /\ invoked[k] = 1


\* C11: when the agent answers a bare catalog identifier, the request
\* fetches that product and replies with a summary instead of ending
\* without a fetch.
C11_BareIdIsFetched ==
    (pq = "returned" /\ qbOut = <<BARE_ID>>) =>
        /\ Len(fetchCalls) = 1
        /\ reply # <<NO_VALID>>

\* the chunks whose summarize call is in flight
InFlight == {k \in 1..NChunks : task[k] = "running"}

\* C15: at every moment at most batch_size summarize calls are in flight and
\* they all belong to one batch; called from process_query (default
\* batch_size 1) at most one call is in flight.
C15_BoundedConcurrency ==
    /\ Cardinality(InFlight) <= batch_size
    /\ \A k \in InFlight, m \in InFlight : BatchIndex(k) = BatchIndex(m)
    /\ pq = "await_summary" => (batch_size = 1 /\ Cardinality(InFlight) <= 1)

C15_Witness ==
    /\ batch_size >= 2 /\ Cardinality(InFlight) = batch_size
    /\ \A k \in InFlight : BatchIndex(k) >= 1

\* the catalog answered 2xx with a JSON object whose record array is under key
OkWithKey(key) ==
    /\ catalogResp.transport = "ok"
    /\ catalogResp.status = 200
    /\ catalogResp.body.kind = "object"
    /\ catalogResp.body.key = key

\* C16 as stated: an HTTP 200 answer is accepted with its records under
\* "data" as well as under "products"; the reply is the aggregated summary,
\* not a failure message.
C16_DataOrProductsAsStated ==
    (pq = "returned" /\ (OkWithKey("data") \/ OkWithKey("products"))) =>
        /\ ~IsFailureMessage(reply)
        /\ sic = "returned"
        /\ reply = ret

\* C16 amended: an HTTP 200 answer with its records under "data" is
\* partitioned, summarized and answered with the aggregated summary; with
\* the records under "products" nothing is summarized and the reply is a
\* failure message.
C16_DataKeyOnly ==
    /\ (pq = "returned" /\ OkWithKey("data")) =>
          /\ ~IsFailureMessage(reply)
          /\ sic = "returned"
          /\ data = catalogResp.body.records
          /\ reply = Join([k \in 1..NChunks |-> SegmentOf(k)])
    /\ OkWithKey("products") =>
          /\ pq = "returned"
          /\ IsFailureMessage(reply)
          /\ TotalInvocations = 0

C16_Witness ==
    /\ pq = "returned" /\ OkWithKey("products")
    /\ catalogResp.body.records # <<>>
    /\ IsFailureMessage(reply)

\* C17 as stated: a handled chat request appends to the session memory, so
\* that the memory holds the identifiers seen.
C17_MemoryAppendedAsStated ==
    (pq = "returned" /\ qbOut # <<>>) => session_memory # <<>>

\* C17 amended: no step of a chat request writes the session memory; it is
\* empty after every handled request, so no appends exist to interleave.
C17_MemoryNeverWritten ==
    [][session_memory' = session_memory /\ session_memory = <<>>]_vars

C17_Witness ==
    pq = "returned" /\ Len(fetchCalls) = 1 /\ session_memory = <<>>

\* C19: whatever the query builder agent, the catalog and the summary agent
\* do, process_query never lets an exception escape; while it is waiting it
\* can always go on, and it ends by returning a reply string.
C19_ProcessQueryTotal ==
    /\ pq # "raised"
    /\ pq \in {"await_qb", "await_fetch", "await_summary"} => ENABLED Next
    /\ pq = "returned" => reply \in Seq(STRING)

C19_Witness ==
    pq = "returned" /\ reply = <<ERR_QUERY, "UnboundLocalError">>


\* the documented pair the encoder is working on
CurrentPair == DocPairs[enc.row]

HasParen(s) == \E k \in 1..Len(s) : s[k] \in {"(", ")"}

\* an encoded string with the escapes of "(" and ")" put back as literals
LiteralParens(s) ==
    [k \in 1..Len(s) |-> IF s[k] = "%28" THEN "("
                         ELSE IF s[k] = "%29" THEN ")" ELSE s[k]]

StatedReplacement(c) ==
    CASE c = "'" -> "%27" [] c = ":" -> "%3A" [] c = " " -> "%20"
      [] c = "," -> "%2C" [] c = "^" -> "%5E" [] c = "(" -> "%28"
      [] c = ")" -> "%29" [] c = "/" -> "%2F" [] OTHER -> c

\* the replacement of characters that the documented strings show
ShownReplacement(c) ==
    CASE c = "'" -> "%27" [] c = ":" -> "%3A" [] c = " " -> "%20"
      [] c = "," -> "%2C" [] c = "^" -> "%5E" [] c = "/" -> "%2F"
      [] OTHER -> c

\* s without the spaces that directly follow a comma
RECURSIVE DropSpaceAfterComma(_)
DropSpaceAfterComma(s) ==
    IF Len(s) < 2 THEN s
    ELSE IF s[1] = "," /\ s[2] = " "
         THEN <<s[1]>> \o DropSpaceAfterComma(SubSeq(s, 3, Len(s)))
         ELSE <<s[1]>> \o DropSpaceAfterComma(Tail(s))

C14_RoundTrip ==
    (enc.phase = "decoded" /\ enc.row <= LocalizedRow) =>
        StripFilterPrefix(enc.out) = CurrentPair.raw


\* the batch is running and chunk hung's call will never end
Hanging == hung # 0 /\ sic = "gather"

\* C18 as stated: if every summarize call ends, summarize_in_chunks returns;
\* a call that never ends delays only its own batch: the other chunks of
\* its batch, and the chunks of the other batches, still get summarized.
C18_TerminationAsStated ==
    /\ (hung = 0 /\ sic = "gather") ~> (sic = "returned")
    /\ Hanging ~> (\A k \in 1..NChunks :
                      (k # hung /\ BatchIndex(k) = BatchIndex(hung))
                          => task[k] = "done")
    /\ Hanging ~> (\A k \in 1..NChunks :
                      BatchIndex(k) # BatchIndex(hung) => task[k] = "done")

\* C18 amended: if every summarize call ends, summarize_in_chunks returns; a
\* call that never ends does not keep the other chunks of its batch (nor the
\* earlier batches) from being summarized, but its batch never completes, no
\* later batch is ever started and summarize_in_chunks never returns.
C18_Termination ==
    /\ (hung = 0 /\ sic = "gather") ~> (sic = "returned")
    /\ Hanging ~> (\A k \in 1..NChunks :
                      (k # hung /\ BatchIndex(k) <= BatchIndex(hung))
                          => task[k] = "done")
    /\ [](hung # 0 =>
            /\ sic # "returned"
            /\ \A k \in 1..NChunks :
                  BatchIndex(k) > BatchIndex(hung) => task[k] = "none")

C18_Witness ==
    /\ Hanging /\ batch_size >= 2
    /\ task[hung] = "running"
    /\ \E k \in 1..NChunks : k # hung /\ BatchIndex(k) = BatchIndex(hung)
    /\ \A k \in 1..NChunks :
          (k # hung /\ BatchIndex(k) = BatchIndex(hung)) => task[k] = "done"
    /\ \E k \in 1..NChunks : BatchIndex(k) > BatchIndex(hung)

====
